---- MODULE Spec2Model ----
(***************************************************************************)
(* Air virtual drawing: the per-frame main loop (main.py), the UI hit-test *)
(* engine (painter.py, PainterUI.handle_interactions) and the mouth-save   *)
(* debounce, as a state machine with one step per captured video frame.    *)
(*                                                                         *)
(* Abstractions                                                            *)
(*  - The raster canvas is the set of kinds of drawing calls applied to it *)
(*    since it was last reset to white ("line" for cv2.line, the shape     *)
(*    name for draw_shape).  The geometry of the call made in a frame is   *)
(*    kept in draw_op.                                                     *)
(*  - The smoother state is kept in tenths of a pixel; raw fingertip       *)
(*    coordinates are drawn so that the moving average lands on one of the *)
(*    representative pointer positions (get_hand_landmarks does not clamp  *)
(*    landmark coordinates to the frame).                                  *)
(*  - detect_mouth_open's result is an input boolean.                      *)
(***************************************************************************)
EXTENDS Integers, Sequences, FiniteSets

VARIABLES
    \* main(): locals that live across loop iterations
    canvas, previous_x, previous_y, save_cooldown, mouth_open_count,
    smooth_x, smooth_y,
    \* main(): values computed in the current iteration (pointing: what the
    \* call of get_pointing_finger came to)
    fingers_up, pointing, interactions, saved, draw_op,
    \* len(landmarks) of the hand the tracker holds for the current frame
    n_landmarks,
    \* PainterUI fields
    current_color, current_brush_size, hide_colors, hide_pen_sizes,
    hide_shapes, current_shape, shape_start_point, shape_drawing_mode,
    \* history of the frames fed so far (observers, not program state)
    open_run, since_save, n_saves, lead_open, run_saves

vars == <<canvas, previous_x, previous_y, save_cooldown, mouth_open_count,
          smooth_x, smooth_y, fingers_up, pointing, interactions, saved,
          draw_op, n_landmarks,
          current_color, current_brush_size, hide_colors, hide_pen_sizes,
          hide_shapes, current_shape, shape_start_point, shape_drawing_mode,
          open_run, since_save, n_saves, lead_open, run_saves>>

---------------------------------------------------------------------------
(* Python values *)

\* Python None for a point / for a shape name
None == <<>>
NoShape == "None"

\* truthiness of an optional tuple and of an optional string
TruthyPoint(p) == p # None
TruthyShape(s) == s # NoShape

\* fingers_up[k] with Python's 0-based index
Finger(f, k) == f[k + 1]

Min(S) == CHOOSE m \in S : \A n \in S : m <= n

---------------------------------------------------------------------------
(* painter.py: UIElement and the layout built by PainterUI.__init__ *)

UIElement(x, y, w, h, color, text) ==
    [x |-> x, y |-> y, w |-> w, h |-> h, color |-> color, text |-> text]

is_over_inclusive(el, x, y) ==
    (el.x <= x /\ x <= el.x + el.w) /\ (el.y <= y /\ y <= el.y + el.h)

is_over(el, x, y) ==
    (el.x < x /\ x < el.x + el.w) /\ (el.y < y /\ y < el.y + el.h)

width == 1280
base_x == 50
base_y == 20
button_width == 120
button_height == 50
horizontal_spacing == 10
vertical_spacing == 10
swatch_width == 80
eraser_width == 100
canvas_height == 1780

canvas_background_color == <<255, 255, 255>>

color_palette ==
    << <<50, 120, 220>>, <<80, 180, 120>>, <<230, 130, 80>>,
       <<180, 80, 180>>, <<220, 90, 120>> >>

button_color == <<100, 100, 100>>

toggle_texts == <<"Colors", "Shapes", "Pen", "Save", "Clear">>

toggle_buttons ==
    [i \in 1..5 |->
        UIElement(base_x + (button_width + horizontal_spacing) * (i - 1),
                  base_y, button_width, button_height, button_color,
                  toggle_texts[i])]

button_actions_swapped(text) ==
    CASE text = "Colors" -> "hide_shapes"
      [] text = "Shapes" -> "hide_colors"
      [] text = "Pen" -> "hide_pen_sizes"
      [] text = "Save" -> "save_drawing"
      [] text = "Clear" -> "clear_canvas"

button_actions(text) ==
    CASE text = "Colors" -> "hide_colors"
      [] text = "Shapes" -> "hide_shapes"
      [] text = "Pen" -> "hide_pen_sizes"
      [] text = "Save" -> "save_drawing"
      [] text = "Clear" -> "clear_canvas"

color_x == base_x
color_y == base_y + button_height + vertical_spacing

colors ==
    [i \in 1..6 |->
        IF i <= 5
        THEN UIElement(color_x + (swatch_width + horizontal_spacing) * (i - 1),
                       color_y, swatch_width, button_height,
                       color_palette[i], "")
        ELSE UIElement(color_x + (swatch_width + horizontal_spacing) * 5,
                       color_y, eraser_width, button_height,
                       <<240, 240, 240>>, "Eraser")]

pen_x == base_x
pen_y == color_y + button_height + vertical_spacing
pen_color == <<70, 70, 70>>

\* str(size) for size in range(5, 25, 5), and int(text) back
pen_texts == <<"5", "10", "15", "20">>

IntOfText(text) ==
    CASE text = "5" -> 5
      [] text = "10" -> 10
      [] text = "15" -> 15
      [] text = "20" -> 20

pen_sizes ==
    [i \in 1..4 |->
        UIElement(pen_x + (button_width + horizontal_spacing) * (i - 1),
                  pen_y, button_width, button_height, pen_color,
                  pen_texts[i])]

shape_x == base_x
shape_y == pen_y + button_height + vertical_spacing
shape_color == <<90, 90, 90>>
shape_texts == <<"Circle", "Rectangle", "Triangle">>

shapes ==
    [i \in 1..3 |->
        UIElement(shape_x + (button_width + horizontal_spacing) * (i - 1),
                  shape_y, button_width, button_height, shape_color,
                  shape_texts[i])]

canvas_element_from_swatch_row ==
    UIElement(50, color_y, width - 100, canvas_height, <<240, 240, 240>>, "")

canvas_element ==
    UIElement(50, shape_y - 70, width - 100, canvas_height,
              <<240, 240, 240>>, "")

\* `for el in group: if el.is_over(x, y): ...; break`: index of the first
\* element under the point, 0 when there is none
FirstOver(group, x, y) ==
    LET hits == {i \in DOMAIN group : is_over(group[i], x, y)}
    IN  IF hits = {} THEN 0 ELSE Min(hits)

---------------------------------------------------------------------------
(* painter.py: PainterUI state and handle_interactions *)

\* the PainterUI fields as one value
UI ==
    [current_color |-> current_color,
     current_brush_size |-> current_brush_size,
     hide_colors |-> hide_colors,
     hide_pen_sizes |-> hide_pen_sizes,
     hide_shapes |-> hide_shapes,
     current_shape |-> current_shape,
     shape_start_point |-> shape_start_point,
     shape_drawing_mode |-> shape_drawing_mode]

\* PainterUI.__init__: the additional state variables
InitUI ==
    [current_color |-> color_palette[1],
     current_brush_size |-> 5,
     hide_colors |-> TRUE,
     hide_pen_sizes |-> TRUE,
     hide_shapes |-> TRUE,
     current_shape |-> NoShape,
     shape_start_point |-> None,
     shape_drawing_mode |-> FALSE]

\* the result dictionary handle_interactions starts from
NoInteractions ==
    [color_changed |-> FALSE,
     brush_size_changed |-> FALSE,
     clear_canvas |-> FALSE,
     drawing_mode |-> FALSE,
     shape_drawing_mode |-> FALSE,
     save_drawing |-> FALSE]

\* Each step takes and returns s = [ui, interactions].

\* # Check toggle buttons
ToggleStep(s, x, y, f) ==
    IF ~Finger(f, 1) THEN s
    ELSE
    LET i == FirstOver(toggle_buttons, x, y) IN
    IF i = 0 THEN s
    ELSE
    LET action == button_actions(toggle_buttons[i].text) IN
    CASE action = "hide_colors" ->
            [s EXCEPT !.ui.hide_colors = ~@]
      [] action = "hide_shapes" ->
            [s EXCEPT !.ui.hide_shapes = ~@]
      [] action = "hide_pen_sizes" ->
            [s EXCEPT !.ui.hide_pen_sizes = ~@]
      [] action = "clear_canvas" ->
            [s EXCEPT !.interactions.clear_canvas = TRUE]
      [] action = "save_drawing" ->
            [s EXCEPT !.interactions.save_drawing = TRUE]
      [] OTHER -> s

ColorStep_keeps_size(s, x, y, f) ==
    IF ~(~s.ui.hide_colors /\ Finger(f, 1)) THEN s
    ELSE
    LET i == FirstOver(colors, x, y) IN
    IF i = 0 THEN s
    ELSE IF colors[i].text = "Eraser"
    THEN [s EXCEPT !.ui.current_color = canvas_background_color,
                   !.interactions.color_changed = TRUE]
    ELSE [s EXCEPT !.ui.current_color = colors[i].color,
                   !.interactions.color_changed = TRUE]

\* # Color selection
ColorStep(s, x, y, f) ==
    IF ~(~s.ui.hide_colors /\ Finger(f, 1)) THEN s
    ELSE
    LET i == FirstOver(colors, x, y) IN
    IF i = 0 THEN s
    ELSE IF colors[i].text = "Eraser"
    THEN [s EXCEPT !.ui.current_color = canvas_background_color,
                   !.ui.current_brush_size = 20,
                   !.interactions.color_changed = TRUE]
    ELSE [s EXCEPT !.ui.current_color = colors[i].color,
                   !.ui.current_brush_size = 5,
                   !.interactions.color_changed = TRUE]

\* # Pen size selection
PenStep(s, x, y, f) ==
    IF ~(~s.ui.hide_pen_sizes /\ Finger(f, 1)) THEN s
    ELSE
    LET i == FirstOver(pen_sizes, x, y) IN
    IF i = 0 THEN s
    ELSE [s EXCEPT !.ui.current_brush_size = IntOfText(pen_sizes[i].text),
                   !.interactions.brush_size_changed = TRUE]

\* # Shape selection
ShapeStep(s, x, y, f) ==
    IF ~(~s.ui.hide_shapes /\ Finger(f, 1)) THEN s
    ELSE
    LET i == FirstOver(shapes, x, y) IN
    IF i = 0 THEN s
    ELSE [s EXCEPT !.ui.current_shape = shapes[i].text,
                   !.ui.shape_drawing_mode = FALSE]

DrawingGesture_index_only(f) == Finger(f, 1)

\* "only index finger is up": index extended and thumb not extended
DrawingGesture(f) == Finger(f, 1) /\ ~Finger(f, 0)

\* # Drawing mode
DrawingModeStep(s, x, y, f) ==
    IF is_over(canvas_element, x, y) /\ DrawingGesture(f)
    THEN [s EXCEPT !.interactions.drawing_mode = TRUE]
    ELSE s

ShapeModeStep_ignores_hidden(s, x, y, f) ==
    IF ~is_over(canvas_element, x, y) THEN s
    ELSE IF ~TruthyShape(s.ui.current_shape) THEN s
    ELSE IF ~s.ui.shape_drawing_mode /\ Finger(f, 0)
    THEN [s EXCEPT !.ui.shape_start_point = <<x, y>>,
                   !.ui.shape_drawing_mode = TRUE,
                   !.interactions.shape_drawing_mode = TRUE]
    ELSE IF s.ui.shape_drawing_mode /\ ~Finger(f, 0)
    THEN [s EXCEPT !.ui.shape_drawing_mode = FALSE,
                   !.ui.current_shape = NoShape]
    ELSE s

ShapeModeStep_commit_keeps_phase(s, x, y, f) ==
    IF ~is_over(canvas_element, x, y) THEN s
    ELSE IF ~(~s.ui.hide_shapes /\ TruthyShape(s.ui.current_shape)) THEN s
    ELSE IF ~s.ui.shape_drawing_mode /\ Finger(f, 0)
    THEN [s EXCEPT !.ui.shape_start_point = <<x, y>>,
                   !.ui.shape_drawing_mode = TRUE,
                   !.interactions.shape_drawing_mode = TRUE]
    ELSE IF s.ui.shape_drawing_mode /\ ~Finger(f, 0)
    THEN [s EXCEPT !.ui.current_shape = NoShape]
    ELSE s

\* # Shape drawing mode
ShapeModeStep(s, x, y, f) ==
    IF ~is_over(canvas_element, x, y) THEN s
    ELSE IF ~(~s.ui.hide_shapes /\ TruthyShape(s.ui.current_shape)) THEN s
    ELSE IF ~s.ui.shape_drawing_mode /\ Finger(f, 0)
    THEN [s EXCEPT !.ui.shape_start_point = <<x, y>>,
                   !.ui.shape_drawing_mode = TRUE,
                   !.interactions.shape_drawing_mode = TRUE]
    ELSE IF s.ui.shape_drawing_mode /\ ~Finger(f, 0)
    THEN [s EXCEPT !.ui.shape_drawing_mode = FALSE,
                   !.ui.current_shape = NoShape]
    ELSE s

\* PainterUI.handle_interactions(x, y, fingers_up): [ui, interactions]
handle_interactions(ui, x, y, f) ==
    LET s0 == [ui |-> ui, interactions |-> NoInteractions]
        s1 == ToggleStep(s0, x, y, f)
        s2 == ColorStep(s1, x, y, f)
        s3 == PenStep(s2, x, y, f)
        s4 == ShapeStep(s3, x, y, f)
        s5 == DrawingModeStep(s4, x, y, f)
    IN  ShapeModeStep(s5, x, y, f)

\* PainterUI.draw_shape(canvas, start_point, end_point): the canvas passed
\* in, with the current shape drawn on it
draw_shape(ui, cv, start_point, end_point) ==
    IF ui.current_shape \in {"Circle", "Rectangle", "Triangle"}
    THEN cv \cup {ui.current_shape}
    ELSE cv

---------------------------------------------------------------------------
(* hand_tracker.py, as seen by main() *)

\* A hand input of one frame: n landmarks of the tracked hand (0: no hand
\* detected), the raw pixel position of landmark 8 and the finger vector
\* the landmark geometry classifies to.
NoHand == [n |-> 0, tip |-> None, fingers |-> <<>>]

\* lines 68-69 of main() with detect_gesture: [] without 21 landmarks
detect_gesture(hand) ==
    IF hand.n < 21 THEN <<>> ELSE hand.fingers

\* the exception a list raises for an index beyond its end
IndexError == <<"IndexError">>

\* landmarks[k] for a list of n landmarks whose k-th entry is v
ListItem(n, k, v) == IF k < n THEN v ELSE IndexError

\* if len(landmarks) >= 8: return landmarks[HandLandmark.INDEX_TIP.value]
get_pointing_finger(hand) ==
    IF hand.n >= 8 THEN ListItem(hand.n, 8, hand.tip) ELSE None

\* what a call of get_pointing_finger came to
PointKind(pf) ==
    IF pf = None THEN "None"
    ELSE IF pf = IndexError THEN "IndexError"
    ELSE "point"

---------------------------------------------------------------------------
(* main.py: the body of the while loop *)

SAVE_COOLDOWN_FRAMES == 60
MOUTH_OPEN_THRESHOLD == 10

\* alpha = 0.4, in tenths; smooth_x and smooth_y are held in tenths of a pixel
Tenths == 10
alpha == 4

\* alpha * x + (1 - alpha) * smooth_x
Smoothed(x, smooth) ==
    (alpha * (x * Tenths) + (Tenths - alpha) * smooth) \div Tenths

\* int(): truncation toward zero
int(v) == IF v >= 0 THEN v \div Tenths ELSE -((-v) \div Tenths)

\* if save_cooldown > 0: save_cooldown -= 1
TickCooldown(c) == IF c > 0 THEN c - 1 ELSE c

CountOpen_keeps_on_closed(cnt, is_mouth_open) ==
    IF is_mouth_open THEN cnt + 1 ELSE cnt

\* if is_mouth_open: mouth_open_count += 1 else: mouth_open_count = 0
CountOpen(cnt, is_mouth_open) == IF is_mouth_open THEN cnt + 1 ELSE 0

SaveTriggered_late(cnt, c) == cnt > MOUTH_OPEN_THRESHOLD /\ c = 0

SaveTriggered_no_cooldown(cnt, c) == cnt >= MOUTH_OPEN_THRESHOLD

\* mouth_open_count >= MOUTH_OPEN_THRESHOLD and save_cooldown == 0
SaveTriggered(cnt, c) == cnt >= MOUTH_OPEN_THRESHOLD /\ c = 0

SaveEvents_on_button(fire, inter) == fire \/ inter.save_drawing

\* the frames that write the canvas to a file: cv2.imwrite is called only
\* inside the mouth-debounce branch; the result of handle_interactions
\* (inter) is not consulted
SaveEvents(fire, inter) == fire

\* np.zeros((720, 1280, 3)) + 255: the white canvas
WhiteCanvas == {}

NoDraw == [op |-> "none", kind |-> NoShape, from |-> None, to |-> None]

HasPrevious_always(prev) == TRUE

\* (previous_x, previous_y) != (0, 0)
HasPrevious(prev) == prev # <<0, 0>>

DrawStep_keeps_canvas_on_clear(cv, r, prev, cur) ==
    IF r.interactions.shape_drawing_mode
       /\ TruthyPoint(r.ui.shape_start_point)
    THEN [canvas |-> draw_shape(r.ui, cv, r.ui.shape_start_point, cur),
          op |-> [op |-> "shape", kind |-> r.ui.current_shape,
                  from |-> r.ui.shape_start_point, to |-> cur]]
    ELSE IF r.interactions.drawing_mode /\ HasPrevious(prev)
    THEN [canvas |-> cv \cup {"line"},
          op |-> [op |-> "line", kind |-> NoShape, from |-> prev, to |-> cur]]
    ELSE [canvas |-> cv, op |-> NoDraw]

\* the drawing branch of one frame (lines 119-139): the canvas main() holds
\* after it and the drawing call that was made
DrawStep(cv, r, prev, cur) ==
    LET cleared == IF r.interactions.clear_canvas THEN WhiteCanvas ELSE cv
    IN
    IF r.interactions.shape_drawing_mode
       /\ TruthyPoint(r.ui.shape_start_point)
    THEN \* preview_canvas = canvas.copy();
         \* canvas = painter_ui.draw_shape(preview_canvas, ...)
         [canvas |-> draw_shape(r.ui, cleared, r.ui.shape_start_point, cur),
          op |-> [op |-> "shape", kind |-> r.ui.current_shape,
                  from |-> r.ui.shape_start_point, to |-> cur]]
    ELSE IF r.interactions.drawing_mode /\ HasPrevious(prev)
    THEN [canvas |-> cleared \cup {"line"},
          op |-> [op |-> "line", kind |-> NoShape, from |-> prev, to |-> cur]]
    ELSE [canvas |-> cleared, op |-> NoDraw]

\* bounds of the frame history
MaxRun == 12
MaxSince == 61
MaxSaves == 2
MaxRunSaves == 2

Cap(v, m) == IF v > m THEN m ELSE v

\* One iteration of the loop, for a frame whose mouth classifies to
\* is_mouth_open and whose hand detection is hand.
Frame(is_mouth_open, hand) ==
    LET fu == IF hand.n > 0 THEN detect_gesture(hand) ELSE <<>>
        pointing_finger == get_pointing_finger(hand)
        cd == TickCooldown(save_cooldown)
        cnt == CountOpen(mouth_open_count, is_mouth_open)
        fire == SaveTriggered(cnt, cd)
        usable == TruthyPoint(pointing_finger) /\ fu # <<>>
    IN
    \* an exception raised in an earlier iteration has ended main()
    /\ pointing # "IndexError"
    /\ n_landmarks' = hand.n
    /\ pointing' = PointKind(pointing_finger)
    /\ fingers_up' = fu
    /\ IF pointing_finger = IndexError
       THEN \* line 72 raises: the rest of the iteration is not run
            UNCHANGED <<canvas, previous_x, previous_y, save_cooldown,
                        mouth_open_count, smooth_x, smooth_y, interactions,
                        saved, draw_op, current_color, current_brush_size,
                        hide_colors, hide_pen_sizes, hide_shapes,
                        current_shape, shape_start_point, shape_drawing_mode,
                        open_run, since_save, n_saves, lead_open,
                        run_saves>>
       ELSE
           /\ save_cooldown' = IF fire THEN SAVE_COOLDOWN_FRAMES ELSE cd
           /\ mouth_open_count' = IF fire THEN 0 ELSE cnt
           /\ open_run' = IF is_mouth_open THEN Cap(open_run + 1, MaxRun) ELSE 0
           /\ since_save' = IF fire THEN 0
                            ELSE IF since_save < 0 THEN since_save
                            ELSE Cap(since_save + 1, MaxSince)
           /\ n_saves' = IF fire THEN Cap(n_saves + 1, MaxSaves) ELSE n_saves
           /\ lead_open' = IF lead_open >= 0 /\ lead_open < MaxRun /\ is_mouth_open
                           THEN lead_open + 1 ELSE -1
           /\ run_saves' = IF ~is_mouth_open THEN 0
                           ELSE IF fire THEN Cap(run_saves + 1, MaxRunSaves)
                           ELSE run_saves
           /\ IF usable
              THEN LET sx == Smoothed(pointing_finger[1], smooth_x)
                       sy == Smoothed(pointing_finger[2], smooth_y)
                       cur == <<int(sx), int(sy)>>
                   IN  \E r \in {handle_interactions(UI, cur[1], cur[2], fu)} :
                       \E d \in {DrawStep(canvas, r, <<previous_x, previous_y>>,
                                           cur)} :
                       /\ smooth_x' = sx
                       /\ smooth_y' = sy
                       /\ interactions' = r.interactions
                       /\ saved' = SaveEvents(fire, r.interactions)
                       /\ current_color' = r.ui.current_color
                       /\ current_brush_size' = r.ui.current_brush_size
                       /\ hide_colors' = r.ui.hide_colors
                       /\ hide_pen_sizes' = r.ui.hide_pen_sizes
                       /\ hide_shapes' = r.ui.hide_shapes
                       /\ current_shape' = r.ui.current_shape
                       /\ shape_start_point' = r.ui.shape_start_point
                       /\ shape_drawing_mode' = r.ui.shape_drawing_mode
                       /\ canvas' = d.canvas
                       /\ draw_op' = d.op
                       /\ previous_x' = cur[1]
                       /\ previous_y' = cur[2]
              ELSE /\ previous_x' = 0
                   /\ previous_y' = 0
                   /\ interactions' = NoInteractions
                   /\ saved' = SaveEvents(fire, NoInteractions)
                   /\ draw_op' = NoDraw
                   /\ UNCHANGED <<smooth_x, smooth_y, canvas, current_color,
                                  current_brush_size, hide_colors, hide_pen_sizes,
                                  hide_shapes, current_shape, shape_start_point,
                                  shape_drawing_mode>>

Init ==
    /\ canvas = WhiteCanvas
    /\ previous_x = 0 /\ previous_y = 0
    /\ save_cooldown = 0
    /\ mouth_open_count = 0
    /\ smooth_x = 0 /\ smooth_y = 0
    /\ fingers_up = <<>>
    /\ pointing = "None"
    /\ n_landmarks = 0
    /\ interactions = NoInteractions
    /\ saved = FALSE
    /\ draw_op = NoDraw
    /\ current_color = InitUI.current_color
    /\ current_brush_size = InitUI.current_brush_size
    /\ hide_colors = InitUI.hide_colors
    /\ hide_pen_sizes = InitUI.hide_pen_sizes
    /\ hide_shapes = InitUI.hide_shapes
    /\ current_shape = InitUI.current_shape
    /\ shape_start_point = InitUI.shape_start_point
    /\ shape_drawing_mode = InitUI.shape_drawing_mode
    /\ open_run = 0
    /\ since_save = -1
    /\ n_saves = 0
    /\ lead_open = 0
    /\ run_saves = 0

---------------------------------------------------------------------------
(* The frames fed to the loop *)

\* representative smoothed pointer positions: the five toggles, two
\* swatches (mint green, Eraser), a pen-size button, two shape buttons,
\* two bare canvas positions and the frame corner
ToggleRow == {<<100, 50>>, <<200, 50>>, <<350, 50>>, <<550, 50>>, <<600, 50>>}
SwatchRow == {<<200, 100>>, <<550, 100>>}
PenRow == {<<200, 150>>}
ShapeRow == {<<100, 220>>, <<200, 220>>}
BareCanvas == {<<800, 300>>, <<900, 400>>}
Points == ToggleRow \cup SwatchRow \cup PenRow \cup ShapeRow \cup BareCanvas
            \cup {<<0, 0>>}

\* thumb and index in every combination
FingerVectors ==
    {<<t, i, FALSE, FALSE, FALSE>> : t \in BOOLEAN, i \in BOOLEAN}

\* the raw coordinate that moves the smoother from smooth to pixel target
RawToward(smooth, target) ==
    (Tenths * Tenths * target - (Tenths - alpha) * smooth)
        \div (alpha * Tenths)

HandAt(target, f) ==
    [n |-> 21,
     tip |-> <<RawToward(smooth_x, target[1]), RawToward(smooth_y, target[2])>>,
     fingers |-> f]

Hands(targets, vectors) ==
    {NoHand} \cup {HandAt(t, f) : t \in targets, f \in vectors}

\* the toolbar: toggles, swatches, pen sizes and freehand drawing, with the
\* mouth closed
ToolPoints == ToggleRow \cup SwatchRow \cup PenRow \cup {<<800, 300>>}
NextTools == \E h \in Hands(ToolPoints, FingerVectors) : Frame(FALSE, h)
SpecTools == Init /\ [][NextTools]_vars

\* the shape tool: the three visibility toggles, the shape buttons and the
\* canvas, with the mouth closed
ShapePoints == {<<100, 50>>, <<200, 50>>, <<350, 50>>} \cup ShapeRow \cup BareCanvas
NextShapes == \E h \in Hands(ShapePoints, FingerVectors) : Frame(FALSE, h)
SpecShapes == Init /\ [][NextShapes]_vars

\* the save debounce, with a hand that points at the Save toggle
MouthPoints == {<<550, 50>>}
MouthVectors == {<<FALSE, TRUE, FALSE, FALSE, FALSE>>}
NextMouth ==
    \E m \in BOOLEAN, h \in Hands(MouthPoints, MouthVectors) : Frame(m, h)
SpecMouth == Init /\ [][NextMouth]_vars

\* clearing: the Shapes and Clear toggles, a shape button and the canvas,
\* with the mouth closed
ClearPoints == {<<200, 50>>, <<600, 50>>, <<100, 220>>, <<800, 300>>}
NextClear == \E h \in Hands(ClearPoints, FingerVectors) : Frame(FALSE, h)
SpecClear == Init /\ [][NextClear]_vars

\* partially tracked hands: every landmark count from none to the full hand,
\* pointing at the Colors toggle or at the canvas, with the mouth closed
LandmarkCounts == 0..21
LandmarkPoints == {<<100, 50>>, <<800, 300>>, <<900, 400>>}
HandOf(n, target, f) == [HandAt(target, f) EXCEPT !.n = n]
NextLandmarks ==
    \E n \in LandmarkCounts, t \in LandmarkPoints, f \in FingerVectors :
        Frame(FALSE, HandOf(n, t, f))
SpecLandmarks == Init /\ [][NextLandmarks]_vars

---------------------------------------------------------------------------
(* The mouth-save debounce *)

\* C1: from the initial state, 10 consecutive mouth-open frames fire exactly
\* one save, on the 10th frame; that frame resets the open-counter to 0 and
\* sets the cooldown counter to 60.  (lead_open = k: the k frames fed so far
\* were all mouth-open frames.)
C1_TenOpenFramesFireOnce ==
    /\ lead_open \in 0..9 =>
          /\ ~saved /\ n_saves = 0
          /\ mouth_open_count = lead_open /\ save_cooldown = 0
    /\ lead_open = 10 =>
          /\ saved /\ n_saves = 1
          /\ mouth_open_count = 0 /\ save_cooldown = 60

C1_Witness == lead_open = 10 /\ saved

\* C2: a save fires in a frame only if that frame and the 9 frames before it
\* were all mouth-open frames; a closed frame resets the open-counter to 0
\* and fires nothing.  (open_run: the number of mouth-open frames in a row
\* up to and including the last frame.)
C2_SaveNeedsTenOpenFrames ==
    /\ saved => open_run >= 10
    /\ open_run = 0 => mouth_open_count = 0 /\ ~saved

C2_Witness == saved /\ open_run > 10

\* C3: any two save events are at least 60 frames apart, and a save fires
\* only in a frame whose cooldown counter, after that frame's decrement,
\* is 0.  (since_save: frames elapsed since the last save, -1 before the
\* first save.)
C3_SavesSixtyFramesApart ==
    [][saved' =>
          /\ save_cooldown \in {0, 1}
          /\ since_save >= 0 => since_save + 1 >= 60]_vars

C3_Witness == saved /\ n_saves = 2 /\ open_run >= 10

---------------------------------------------------------------------------
(* The frame just processed, as the state records it *)

\* the frame had a usable hand: handle_interactions was called
HandFrame == fingers_up # <<>>

\* the smoothed pointer handed to handle_interactions in a hand frame
Pointer == <<previous_x, previous_y>>

Thumb == Finger(fingers_up, 0)
Index == Finger(fingers_up, 1)

\* an open rectangle, by its corner coordinates
InRect(p, x0, x1, y0, y1) == x0 < p[1] /\ p[1] < x1 /\ y0 < p[2] /\ p[2] < y1

\* the canvas region: 50 < x < 1230, 130 < y < 1910
InCanvas(p) == InRect(p, 50, 1230, 130, 1910)

\* the three shape buttons: 200 < y < 250
OnShapeButton(p) ==
    \/ InRect(p, 50, 170, 200, 250)
    \/ InRect(p, 180, 300, 200, 250)
    \/ InRect(p, 310, 430, 200, 250)

---------------------------------------------------------------------------
(* Shapes *)

\* C4: a frame that renders a shape preview (a frame that leaves the engine
\* in the shape-drawing phase with the result flag shape_drawing_mode set)
\* leaves the persistent canvas as it was before the frame.
C4_PreviewLeavesCanvas ==
    [][(shape_drawing_mode' /\ interactions'.shape_drawing_mode)
          => canvas' = canvas]_vars

\* C5: in the shape-drawing phase, a frame with the pointer inside the
\* canvas, shapes visible and the thumb not extended commits the selected
\* shape, from the latched anchor to the current pointer, to the persistent
\* canvas, leaves the phase and resets the selected shape to None.  (Stated
\* for a pointer that has moved off the anchor, where the shape to commit
\* is not the degenerate one.)
C5_ThumbDownCommitsShape ==
    [][(/\ shape_drawing_mode /\ ~hide_shapes
        /\ HandFrame' /\ InCanvas(Pointer') /\ ~Thumb'
        /\ Pointer' # shape_start_point)
          => /\ draw_op' = [op |-> "shape", kind |-> current_shape,
                            from |-> shape_start_point, to |-> Pointer']
             /\ current_shape \in canvas'
             /\ ~shape_drawing_mode'
             /\ current_shape' = NoShape]_vars

\* C9: with a shape selected, shapes visible and the engine not in the
\* shape-drawing phase, a frame with the pointer inside the canvas and the
\* thumb extended latches the pointer as the anchor and enters the phase;
\* while the phase stays latched no later frame changes the anchor.
C9_LatchIsOneShot ==
    [][/\ (/\ TruthyShape(current_shape) /\ ~hide_shapes
           /\ ~shape_drawing_mode
           /\ HandFrame' /\ InCanvas(Pointer') /\ Thumb')
          => shape_drawing_mode' /\ shape_start_point' = Pointer'
       /\ (shape_drawing_mode /\ shape_drawing_mode')
          => shape_start_point' = shape_start_point]_vars

---------------------------------------------------------------------------
(* Freehand drawing *)

C8_NoSegmentAcrossGap ==
    [][/\ ~HandFrame' => Pointer' = <<0, 0>>
       /\ (~HandFrame /\ HandFrame') =>
             /\ draw_op'.op # "line"
             /\ "line" \in canvas' => "line" \in canvas
       /\ draw_op'.op = "line" => draw_op'.from # <<0, 0>>]_vars

\* after a stroke and a gap, a frame with the drawing gesture on the canvas
\* drew nothing
C8_Witness ==
    /\ HandFrame /\ interactions.drawing_mode /\ InCanvas(Pointer)
    /\ draw_op = NoDraw /\ "line" \in canvas

---------------------------------------------------------------------------
(* Toggle buttons *)

\* C10: a frame with the pointer inside the Colors, Shapes or Pen toggle and
\* the index finger extended flips that group's visibility flag and leaves
\* the other two flags, the color, the brush size and the selected shape
\* unchanged; from the initial state such a frame on Colors makes the colors
\* visible; Clear and Save raise only their result flag and flip no flag.
C10_Holds(p, f) ==
    LET r == handle_interactions(UI, p[1], p[2], f)
        flip_c == InRect(p, 50, 170, 20, 70)
        flip_s == InRect(p, 180, 300, 20, 70)
        flip_p == InRect(p, 310, 430, 20, 70)
        save == InRect(p, 440, 560, 20, 70)
        clear == InRect(p, 570, 690, 20, 70)
    IN  /\ (flip_c \/ flip_s \/ flip_p \/ save \/ clear) =>
            /\ r.ui.hide_colors = (IF flip_c THEN ~hide_colors ELSE hide_colors)
            /\ r.ui.hide_shapes = (IF flip_s THEN ~hide_shapes ELSE hide_shapes)
            /\ r.ui.hide_pen_sizes =
                  (IF flip_p THEN ~hide_pen_sizes ELSE hide_pen_sizes)
            /\ r.ui.current_color = current_color
            /\ r.ui.current_brush_size = current_brush_size
            /\ r.ui.current_shape = current_shape
        /\ (flip_c /\ UI = InitUI) => ~r.ui.hide_colors
        /\ save => r.interactions = [NoInteractions EXCEPT !.save_drawing = TRUE]
        /\ clear =>
              r.interactions = [NoInteractions EXCEPT !.clear_canvas = TRUE]

C10_ToggleFlipsOneFlag ==
    \A p \in Points, f \in FingerVectors : f[2] => C10_Holds(p, f)

\* the frame on the Colors toggle made the colors visible, the pen sizes
\* being visible already
C10_Witness ==
    /\ HandFrame /\ Index /\ InRect(Pointer, 50, 170, 20, 70)
    /\ ~hide_colors /\ ~hide_pen_sizes /\ hide_shapes

---------------------------------------------------------------------------
(* Color swatches *)

\* the point is over one of the swatches / over the canvas element, in the
\* layout PainterUI.__init__ builds
OnSwatch(p) == FirstOver(colors, p[1], p[2]) # 0
OnCanvasElement(p) == is_over(canvas_element, p[1], p[2])

\* pointer positions on and around the lower edge of the swatch row, where
\* the canvas region begins
SwatchEdgePoints ==
    {<<x, y>> : x \in {51, 200, 550, 599}, y \in {81, 129, 130, 131}}

---------------------------------------------------------------------------
(* Hidden groups *)

\* C11: hidden zones are excluded from hit-testing.  For every pointer
\* position and finger state, a call of handle_interactions that starts
\* with the colors hidden leaves the current color unchanged; with the
\* colors and the pen sizes hidden it leaves the brush size unchanged; with
\* the shapes hidden it leaves the selected shape, the shape-drawing phase
\* and the anchor unchanged.
C11_HiddenZonesNotHit ==
    \A p \in Points, f \in FingerVectors :
        LET r == handle_interactions(UI, p[1], p[2], f).ui
        IN  /\ hide_colors => r.current_color = current_color
            /\ (hide_colors /\ hide_pen_sizes) =>
                  r.current_brush_size = current_brush_size
            /\ hide_shapes =>
                  /\ r.current_shape = current_shape
                  /\ r.shape_drawing_mode = shape_drawing_mode
                  /\ r.shape_start_point = shape_start_point

\* with the shapes hidden, a shape selected and the phase latched, a frame
\* with the thumb down on the canvas (a commit, were the shapes visible)
\* left the selection and the phase as they were
C11_Witness ==
    /\ HandFrame /\ hide_shapes /\ InCanvas(Pointer) /\ ~Thumb
    /\ TruthyShape(current_shape) /\ shape_drawing_mode

---------------------------------------------------------------------------
(* Swatch selection *)

\* one pointer position inside each of the six swatches
SwatchPoints == {<<x, 100>> : x \in {100, 200, 300, 350, 450, 550}}

\* C12: a hit on the visible Eraser swatch with the index finger extended
\* leaves the current color equal to the canvas background color
\* (255,255,255) and the brush width 20 when handle_interactions returns; a
\* hit on any other visible swatch leaves the current color equal to that
\* swatch's color and the brush width 5, whatever the color and the width
\* were before.
C12_SwatchFixesColorAndWidth ==
    \A p \in Points \cup SwatchPoints \cup SwatchEdgePoints,
       f \in FingerVectors :
        (~hide_colors /\ f[2] /\ OnSwatch(p)) =>
            LET r == handle_interactions(UI, p[1], p[2], f).ui
                i == FirstOver(colors, p[1], p[2])
            IN  IF InRect(p, 500, 600, 80, 130)
                THEN /\ r.current_color = <<255, 255, 255>>
                     /\ r.current_color = canvas_background_color
                     /\ r.current_brush_size = 20
                ELSE /\ r.current_color = color_palette[i]
                     /\ r.current_brush_size = 5

\* after a pen size other than 5 or 20 could be chosen (pen sizes visible),
\* a frame on the mint-green swatch left that color and width 5
C12_Witness ==
    /\ HandFrame /\ Index /\ InRect(Pointer, 140, 220, 80, 130)
    /\ ~hide_pen_sizes /\ interactions.color_changed
    /\ current_color = color_palette[2] /\ current_brush_size = 5

---------------------------------------------------------------------------
(* Clear *)

\* C13: at the end of every frame in which the Clear toggle is hit with the
\* index finger extended, the persistent canvas is all background: nothing
\* drawn earlier remains and that frame draws nothing.
C13_ClearLeavesWhiteCanvas ==
    (HandFrame /\ Index /\ InRect(Pointer, 570, 690, 20, 70)) =>
        /\ interactions.clear_canvas
        /\ canvas = WhiteCanvas
        /\ draw_op = NoDraw

\* a Clear frame after an anchor had been latched (the latch frame draws on
\* the canvas) and with the previous point set, so a stroke was possible
C13_Witness ==
    /\ HandFrame /\ Index /\ InRect(Pointer, 570, 690, 20, 70)
    /\ TruthyPoint(shape_start_point) /\ canvas = WhiteCanvas

---------------------------------------------------------------------------
(* Partially tracked hands *)

\* C14: for every landmark count n of the tracked hand, get_pointing_finger
\* yields the index-fingertip point exactly when n >= 21; for every n < 21
\* it yields None and raises no exception, and detect_gesture returns an
\* empty result.
C14_PointerNeedsAllLandmarks ==
    /\ n_landmarks >= 21 => pointing = "point"
    /\ n_landmarks < 21 => pointing = "None" /\ fingers_up = <<>>

\* C15: a frame with no usable hand (get_pointing_finger gave no point, or
\* the finger-state vector is empty) skips the interaction: the visibility
\* flags, color, brush size, selected shape, shape-drawing phase, anchor,
\* smoother state and persistent canvas are as before the frame, the
\* previous draw point is reset to (0,0) and the save debounce has run.
C15_NoHandFramePreservesState ==
    [][(pointing' # "point" \/ fingers_up' = <<>>) =>
          /\ hide_colors' = hide_colors
          /\ hide_pen_sizes' = hide_pen_sizes
          /\ hide_shapes' = hide_shapes
          /\ current_color' = current_color
          /\ current_brush_size' = current_brush_size
          /\ current_shape' = current_shape
          /\ shape_drawing_mode' = shape_drawing_mode
          /\ shape_start_point' = shape_start_point
          /\ smooth_x' = smooth_x /\ smooth_y' = smooth_y
          /\ canvas' = canvas
          /\ previous_x' = 0 /\ previous_y' = 0
          /\ saved' \/ save_cooldown' = TickCooldown(save_cooldown)
          /\ mouth_open_count' \in {0, mouth_open_count + 1}]_vars

---------------------------------------------------------------------------
(* Long mouth-open periods *)

\* C16: in any uninterrupted run of mouth-open frames, of any length, at
\* most one save fires.  (run_saves: the saves fired in the current run of
\* mouth-open frames.)
C16_OneSavePerOpenRun == run_saves <= 1

\* C17: while the cooldown is active only the cooldown counter changes: a
\* frame that leaves the cooldown above 0 leaves the open-counter as it
\* was; the frame that brings the cooldown to 0 leaves the open-counter 0
\* and fires nothing, so a save fires only in a frame that started with
\* the cooldown expired.
C17_CooldownFreezesOpenCounter ==
    [][/\ save_cooldown > 1 => mouth_open_count' = mouth_open_count
       /\ save_cooldown = 1 =>
             /\ save_cooldown' = 0 /\ mouth_open_count' = 0 /\ ~saved'
       /\ saved' => save_cooldown = 0]_vars

---------------------------------------------------------------------------
(* The shape preview *)

\* C18: the result flag shape_drawing_mode reports the shape-preview phase.
\* Every frame with the thumb extended and the pointer inside the canvas,
\* shapes visible, whose handle_interactions call leaves the engine in the
\* shape-drawing phase (the latch frame and the frames after it until the
\* commit) has the flag set, and the main loop renders the shape from the
\* latched anchor to the current pointer in that frame.
C18_FlagReportsPreviewPhase ==
    (/\ HandFrame /\ Thumb /\ InCanvas(Pointer) /\ ~hide_shapes
     /\ shape_drawing_mode) =>
        /\ interactions.shape_drawing_mode
        /\ draw_op = [op |-> "shape", kind |-> current_shape,
                      from |-> shape_start_point, to |-> Pointer]

\* C19: shape mode takes precedence over freehand.  A frame that starts
\* with a shape selected and the shape-drawing phase latched adds no
\* freehand segment to the persistent canvas, whatever the visibility
\* flags, the pointer position and the finger state.
C19_NoFreehandWhileLatched ==
    [][(TruthyShape(current_shape) /\ shape_drawing_mode) =>
          /\ draw_op'.op # "line"
          /\ "line" \in canvas' => "line" \in canvas]_vars

---------------------------------------------------------------------------
(* Buttons and the canvas *)

OnPenButton(p) == FirstOver(pen_sizes, p[1], p[2]) # 0

\* C20: first qualifying group wins overall.  A frame whose pointer hits a
\* visible pen-size button or a visible shape button with the index finger
\* extended does not also report drawing_mode: a button press is never
\* also a canvas draw.
C20_ButtonPressIsNotADraw ==
    (/\ HandFrame /\ Index
     /\ \/ ~hide_pen_sizes /\ OnPenButton(Pointer)
        \/ ~hide_shapes /\ OnShapeButton(Pointer)) =>
        ~interactions.drawing_mode

\* C21: a hit on a visible shape button with the index finger extended sets
\* the selected shape to that button's kind and resets the shape-drawing
\* phase: when handle_interactions returns, shape_drawing_mode is false,
\* for every thumb state.
C21_ShapeButtonResetsPhase ==
    (HandFrame /\ Index /\ ~hide_shapes /\ OnShapeButton(Pointer)) =>
        /\ current_shape
              = shapes[FirstOver(shapes, Pointer[1], Pointer[2])].text
        /\ ~shape_drawing_mode

---------------------------------------------------------------------------
(* Where strokes start *)

\* C22: every freehand segment joins two drawing positions.  A segment is
\* drawn in a frame only if handle_interactions reported drawing_mode both
\* in that frame and in the frame before it, so the segment starts inside
\* the canvas, at a position held with the index extended and the thumb
\* not extended.
C22_SegmentJoinsDrawingPositions ==
    [][draw_op'.op = "line" =>
          /\ interactions'.drawing_mode
          /\ interactions.drawing_mode
          /\ InCanvas(draw_op'.from)
          /\ HandFrame /\ Index /\ ~Thumb]_vars

---------------------------------------------------------------------------
(* The shape-drawing phase *)

\* C23: in every reachable state of PainterUI, shape_drawing_mode true
\* implies that a shape is selected (current_shape is not None) and that
\* an anchor is latched (shape_start_point is not None).
C23_PhaseHasShapeAndAnchor ==
    shape_drawing_mode =>
        TruthyShape(current_shape) /\ TruthyPoint(shape_start_point)

\* the phase is latched on a Rectangle after a Circle had been latched
\* earlier (its latch frame drew on the canvas), and the shapes were then
\* hidden
C23_Witness ==
    /\ shape_drawing_mode /\ hide_shapes
    /\ current_shape = "Rectangle" /\ "Circle" \in canvas

---------------------------------------------------------------------------
(* The Save toggle *)

\* C24: the canvas is persisted only in frames where the mouth debounce
\* fires.  A frame in which the Save toggle is hit (result flag
\* save_drawing true) writes a file only if the debounce fires in it, and
\* leaves the open-counter and the cooldown counter as the mouth logic set
\* them.  (The mouth was open in the frame iff open_run is above 0 after
\* it.)
C24_SaveButtonWritesNothing ==
    [][LET open == open_run' > 0
           cd == IF save_cooldown > 0 THEN save_cooldown - 1 ELSE 0
           cnt == IF open THEN mouth_open_count + 1 ELSE 0
           fires == cnt >= 10 /\ cd = 0
       IN  /\ saved' => fires
           /\ interactions'.save_drawing =>
                 /\ saved' = fires
                 /\ mouth_open_count' = (IF fires THEN 0 ELSE cnt)
                 /\ save_cooldown' = (IF fires THEN 60 ELSE cd)]_vars

\* a frame on the Save toggle, with no cooldown running and the mouth open
\* for fewer than 10 frames, wrote nothing
C24_Witness ==
    /\ HandFrame /\ Index /\ interactions.save_drawing
    /\ ~saved /\ save_cooldown = 0 /\ mouth_open_count \in 1..9
    /\ n_saves = 0

====
